---- MODULE Spec2Model ----
(***************************************************************************)
(* A model of tidy-env's core crate: object placement of the generator     *)
(* (gen.rs, place_objects), the constraint evaluator (object.rs) and the   *)
(* simulator state machine (sim.rs).                                       *)
(***************************************************************************)
EXTENDS Integers, Sequences, FiniteSets, TLC

(* ---------------------------------------------------------------------- *)
(* Cell codes (lib.rs)                                                     *)
(* ---------------------------------------------------------------------- *)
WALL == -1
OUTSIDE == -2
CLOSED_DOOR == -3
OPEN_DOOR == -4
OBSTACLES == {WALL, OUTSIDE, CLOSED_DOOR}

(* ---------------------------------------------------------------------- *)
(* Bounds of the model                                                     *)
(* ---------------------------------------------------------------------- *)
\* largest GenOpts.max_objects that is explored
MaxObjects == 2
\* capacity of the Wardrobe; the catalogue's 20 scaled down so that a full
\* container is reached
WardrobeCapacity == 2
\* largest GenOpts.max_rooms, width and height the layout generator is run
\* with; the smallest width and height are 2 * MIN_THICK_CELLS. Up to 12 the
\* split positions of a region are at most SAMPLE_C, so none is sampled away.
MaxRooms == 3
MaxWidth == 10
MaxHeight == 10

VARIABLES
    width,            \* world.layout.width
    height,           \* world.layout.height
    cells,            \* world.layout.cells, row-major; cell idx is cells[idx + 1]
    room_names,       \* world.layout.room_names, room id r is room_names[r + 1]
    objects,          \* world.objects (place_objects' `objects` while generating)
    agent,            \* Simulator.agent, [x, y]
    holding,          \* Simulator.holding: <<>> is None, <<o>> is Some(o)
    overflow_checks,  \* the build: TRUE panics on integer overflow (debug), FALSE wraps (release)
    max_objects,      \* GenOpts.max_objects (0 once the simulator is built)
    schema_list,      \* place_objects: the shuffled schema order (<<>> after it returns)
    si,               \* place_objects: position of the main loop in schema_list
    id,               \* place_objects: next object id
    needed,           \* place_objects: iterations left in the running top-up pass
    phase,            \* "place", "pick", "cap" (place_objects), "built", "sim", "panic";
                      \* of generate's layout: "shell", "bsp", "walls", "doors", "cells", "layout"
    max_rooms,        \* GenOpts.max_rooms
    shell,            \* generate: the shell mask, as the set of its cell indices
    regions,          \* bsp_with_walls: the masks of `regions`, in the order of the vector
    wall_mask,        \* generate: the wall mask
    door_mask,        \* generate: the door mask
    world0,           \* a recorded run: <<>>, or <<[cells, objects, agent]>> as Simulator::new
                      \* returned the simulator
    log,              \* a recorded run: the calls made since, [op, arg, res] each
    fill,             \* use_door step by step: <<>>, or <<[op, cell_value, change_to]>>
                      \* while its loop runs (op: the call that entered it)
    door_stack,       \* use_door step by step: its `stack`, the last element on top
    last,             \* the last call and what it returned, [op, res]
    prev              \* history: <<>>, or after n = 1 or 2 successful consecutive door
                      \* interacts with the same (dx, dy): <<[dx, dy, cells before them, n]>>

vars == <<width, height, cells, room_names, objects, agent, holding, overflow_checks,
          max_objects, schema_list, si, id, needed, phase, last, prev,
          max_rooms, shell, regions, wall_mask, door_mask, world0, log, fill,
          door_stack>>

carveVars == <<max_rooms, shell, regions, wall_mask, door_mask>>
runVars == <<world0, log>>
fillVars == <<fill, door_stack>>
layoutVars == <<width, height, room_names, overflow_checks, carveVars, runVars, fillVars>>
optVars == <<max_objects>>
genVars == <<schema_list, si, id, needed>>

(* ---------------------------------------------------------------------- *)
(* Layouts                                                                 *)
(* ---------------------------------------------------------------------- *)
\* The shape generate() produces, scaled down: a wall ring, two rooms, and a
\* two-cell doorway of closed doors strictly inside the grid.
TwoRooms ==
    [width |-> 5, height |-> 4,
     cells |-> << WALL, WALL, WALL,        WALL, WALL,
                  WALL, 0,    CLOSED_DOOR, 1,    WALL,
                  WALL, 0,    CLOSED_DOOR, 1,    WALL,
                  WALL, WALL, WALL,        WALL, WALL >>,
     room_names |-> <<"Bedroom", "Kitchen">>]

\* A hand-built world (Simulator::new takes any World): doors on the first
\* row, on the last column and on the first column.
BorderDoors ==
    [width |-> 3, height |-> 4,
     cells |-> << WALL,        CLOSED_DOOR, WALL,
                  WALL,        0,           CLOSED_DOOR,
                  CLOSED_DOOR, 0,           WALL,
                  WALL,        WALL,        WALL >>,
     room_names |-> <<"Bedroom">>]

\* A hand-built world with a closed door cell next to an open one.
MixedDoors ==
    [width |-> 5, height |-> 3,
     cells |-> << WALL, WALL, WALL,        WALL,      WALL,
                  WALL, 0,    CLOSED_DOOR, OPEN_DOOR, WALL,
                  WALL, WALL, WALL,        WALL,      WALL >>,
     room_names |-> <<"Bedroom">>]

Layouts == {TwoRooms, BorderDoors, MixedDoors}

\* a door cell on the first or last row or column
HasBorderDoor(l) ==
    \E i \in 1..Len(l.cells) :
        /\ l.cells[i] \in {CLOSED_DOOR, OPEN_DOOR}
        /\ \/ (i - 1) % l.width \in {0, l.width - 1}
           \/ (i - 1) \div l.width \in {0, l.height - 1}

(* ---------------------------------------------------------------------- *)
(* Objects and schemas (object.rs)                                         *)
(* ---------------------------------------------------------------------- *)
InRoom == [tag |-> "InRoom"]
InsideOf(names) == [tag |-> "InsideOf", names |-> names]
InRoomNamed(names) == [tag |-> "InRoomNamed", names |-> names]

\* Four entries of ObjectSchema::default_schemas()
Wardrobe ==
    [name |-> "Wardrobe", capacity |-> WardrobeCapacity, pickable |-> FALSE,
     constraint |-> InRoomNamed({"Bedroom", "Guest Room"}), target |-> InRoom]
DirtyClothes ==
    [name |-> "DirtyClothes", capacity |-> 0, pickable |-> TRUE,
     constraint |-> InsideOf({"LaundryBasket", "Wardrobe", "StorageBox"}),
     target |-> InsideOf({"LaundryBasket"})]
PetFoodBowl ==
    [name |-> "PetFoodBowl", capacity |-> 10, pickable |-> TRUE,
     constraint |-> InRoomNamed({"Kitchen", "Dining Room"}),
     target |-> InRoomNamed({"Kitchen", "Dining Room"})]
Rug ==
    [name |-> "Rug", capacity |-> 0, pickable |-> TRUE,
     constraint |-> InRoom, target |-> InRoom]

default_schemas == <<Wardrobe, DirtyClothes, PetFoodBowl, Rug>>

\* Object { id, name, capacity, pickable, x, y, contents }
NewObject(i, schema, x, y) ==
    [id |-> i, name |-> schema.name, capacity |-> schema.capacity,
     pickable |-> schema.pickable, x |-> x, y |-> y, contents |-> <<>>]

\* the capacity place_into reads from the object's type, or -1 for the types
\* its match rejects
TypCapacity(o) ==
    IF o.name \in {"Wardrobe", "Cupboard"} THEN o.capacity ELSE -1

(* ---------------------------------------------------------------------- *)
(* Helpers                                                                 *)
(* ---------------------------------------------------------------------- *)
InBounds(x, y) == x >= 0 /\ x < width /\ y >= 0 /\ y < height
CellAt(c, x, y) == c[y * width + x + 1]

\* Vec::remove(pos)
RemoveAt(s, pos) == SubSeq(s, 1, pos - 1) \o SubSeq(s, pos + 1, Len(s))

\* iter().position(pred): the smallest index of the set, 0 for None
First(S) == IF S = {} THEN 0 ELSE CHOOSE i \in S : \A j \in S : i <= j

Deltas == {<<0, -1>>, <<0, 1>>, <<-1, 0>>, <<1, 0>>}

(* ---------------------------------------------------------------------- *)
(* Constraint evaluator (object.rs, ObjectConstraint::check)               *)
(* ---------------------------------------------------------------------- *)
\* some cell at one of the offsets from (x, y) is in bounds and negative
NegativeAt(c, x, y, offsets) ==
    \E d \in offsets :
        /\ InBounds(x + d[1], y + d[2])
        /\ CellAt(c, x + d[1], y + d[2]) < 0

RECURSIVE Check(_, _, _, _, _)
Check(k, c, objs, x, y) ==
    CASE k.tag = "InRoom" -> CellAt(c, x, y) >= 0
      [] k.tag = "AdjacentObstacle" ->
             CellAt(c, x, y) >= 0 /\ NegativeAt(c, x, y, Deltas)
      [] k.tag = "CloseToObstacle" ->
             /\ CellAt(c, x, y) >= 0
             /\ NegativeAt(c, x, y, {<<-2, 0>>, <<2, 0>>, <<0, -2>>, <<0, 2>>})
      [] k.tag = "And" -> \A i \in 1..Len(k.cs) : Check(k.cs[i], c, objs, x, y)
      [] k.tag = "Or" -> \E i \in 1..Len(k.cs) : Check(k.cs[i], c, objs, x, y)
      [] k.tag = "InsideOf" ->
             \E i \in 1..Len(objs) :
                 /\ objs[i].name \in k.names
                 /\ objs[i].x = x /\ objs[i].y = y
                 /\ Len(objs[i].contents) < objs[i].capacity
      [] k.tag = "InRoomNamed" ->
             \* room_names[cell as usize]: evaluated on named room cells only
             room_names[CellAt(c, x, y) + 1] \in k.names
      [] k.tag = "WorldHas" -> \E i \in 1..Len(objs) : objs[i].name \in k.names

(* ---------------------------------------------------------------------- *)
(* Object placement (gen.rs, place_objects)                                *)
(* ---------------------------------------------------------------------- *)
\* free_cells: every room cell; never pruned while objects are placed
free_cells ==
    {p \in (0..(width - 1)) \X (0..(height - 1)) : CellAt(cells, p[1], p[2]) >= 0}

\* the floor candidates of a schema
Candidates(schema) ==
    {p \in free_cells : Check(schema.constraint, cells, objects, p[1], p[2])}

\* parents with spare capacity, optionally of the given names
ParentIndices(objs, names, anyName) ==
    {i \in 1..Len(objs) :
        /\ anyName \/ objs[i].name \in names
        /\ Len(objs[i].contents) < objs[i].capacity}

\* place child `i` of `schema` inside parent objs[pi]
PlaceInside(objs, pi, i, schema) ==
    Append([objs EXCEPT ![pi].contents = Append(@, i)],
           NewObject(i, schema, objs[pi].x, objs[pi].y))

PlaceOnFloor(objs, i, schema, p) == Append(objs, NewObject(i, schema, p[1], p[2]))

\* one iteration of the main loop over schema_list
PlaceSchema ==
    /\ phase = "place"
    /\ si <= Len(schema_list)
    /\ id < max_objects
    /\ LET schema == schema_list[si] IN
       IF schema.constraint.tag = "InsideOf"
       THEN LET parents == ParentIndices(objects, schema.constraint.names, FALSE) IN
            IF parents = {}
            THEN UNCHANGED <<objects, id>>
            ELSE \E pi \in parents :
                    /\ objects' = PlaceInside(objects, pi, id, schema)
                    /\ id' = id + 1
       ELSE \E coin \in BOOLEAN :
              LET parents == IF schema.pickable
                             THEN ParentIndices(objects, {}, TRUE) ELSE {} IN
              IF parents # {} /\ coin
              THEN \E pi \in parents :
                      /\ objects' = PlaceInside(objects, pi, id, schema)
                      /\ id' = id + 1
              ELSE IF Candidates(schema) = {}
                   THEN UNCHANGED <<objects, id>>
                   ELSE \E p \in Candidates(schema) :
                           /\ objects' = PlaceOnFloor(objects, id, schema, p)
                           /\ id' = id + 1
    /\ si' = si + 1
    /\ UNCHANGED <<cells, agent, holding, layoutVars, optVars, schema_list, needed, phase, last, prev>>

\* ((total as f32) * 0.25).ceil()
Quarter(total) == (total + 3) \div 4

\* the filter of a pass: |o| o.pickable, or |o| o.capacity > 0
Wanted(o, pass) == IF pass = "pick" THEN o.pickable ELSE o.capacity > 0
Count(objs, pass) == Cardinality({i \in 1..Len(objs) : Wanted(objs[i], pass)})

\* how many iterations a top-up pass runs
NeededPick(objs) ==
    IF Count(objs, "pick") < Quarter(Len(objs))
    THEN Quarter(Len(objs)) - Count(objs, "pick") ELSE 0
NeededCap(objs) ==
    IF Count(objs, "cap") < Quarter(Len(objs))
    THEN Quarter(Len(objs)) - Count(objs, "cap") ELSE 0

\* the schemas a top-up pass draws from
TopUpSchemas(pass) ==
    {default_schemas[i] : i \in {j \in 1..Len(default_schemas) :
        /\ Wanted(default_schemas[j], pass)
        /\ default_schemas[j].constraint.tag # "InsideOf"}}

\* one iteration of a top-up pass: a random schema, then a random floor cell
TopUp(pass) ==
    /\ IF TopUpSchemas(pass) = {}
       THEN UNCHANGED <<objects, id>>
       ELSE \E schema \in TopUpSchemas(pass) :
              IF Candidates(schema) = {}
              THEN UNCHANGED <<objects, id>>
              ELSE \E p \in Candidates(schema) :
                      /\ objects' = PlaceOnFloor(objects, id, schema, p)
                      /\ id' = id + 1
    /\ needed' = needed - 1
    /\ UNCHANGED <<cells, agent, holding, layoutVars, optVars, schema_list, si, phase, last, prev>>

\* the main loop ends (schemas exhausted, or max_objects reached)
BeginPickPass ==
    /\ phase = "place"
    /\ (si > Len(schema_list) \/ id >= max_objects)
    /\ phase' = "pick"
    /\ needed' = NeededPick(objects)
    /\ UNCHANGED <<cells, objects, agent, holding, layoutVars, optVars, schema_list, si, id, last, prev>>

TopUpPick == phase = "pick" /\ needed > 0 /\ TopUp("pick")

BeginCapPass ==
    /\ phase = "pick"
    /\ needed = 0
    /\ phase' = "cap"
    /\ needed' = NeededCap(objects)
    /\ UNCHANGED <<cells, objects, agent, holding, layoutVars, optVars, schema_list, si, id, last, prev>>

TopUpCap == phase = "cap" /\ needed > 0 /\ TopUp("cap")

\* place_objects returns and its locals are gone; generate returns the world
Generated ==
    /\ phase = "cap"
    /\ needed = 0
    /\ phase' = "built"
    /\ schema_list' = <<>>
    /\ si' = 0
    /\ id' = 0
    /\ UNCHANGED <<cells, objects, agent, holding, layoutVars, optVars, needed, last, prev>>

(* ---------------------------------------------------------------------- *)
(* Simulator (sim.rs)                                                      *)
(* ---------------------------------------------------------------------- *)
\* Simulator::new with the navigable test taken from the obstacle set
new_obstacles(c, start_x, start_y) ==
    IF Len(c) # width * height THEN [res |-> "BadLength", agent |-> <<>>]
    ELSE IF start_x >= width \/ start_y >= height
    THEN [res |-> "OutOfBounds", agent |-> <<>>]
    ELSE IF CellAt(c, start_x, start_y) \in OBSTACLES
    THEN [res |-> "NotNavigable", agent |-> <<>>]
    ELSE [res |-> "Ok", agent |-> <<[x |-> start_x, y |-> start_y]>>]

\* Simulator::new(world, start_x, start_y): [res, agent], agent being the
\* new simulator's agent, or empty when no simulator is returned
new(c, start_x, start_y) ==
    IF Len(c) # width * height THEN [res |-> "BadLength", agent |-> <<>>]
    ELSE IF start_x >= width \/ start_y >= height
    THEN [res |-> "OutOfBounds", agent |-> <<>>]
    ELSE IF CellAt(c, start_x, start_y) < 0
    THEN [res |-> "NotNavigable", agent |-> <<>>]
    ELSE [res |-> "Ok", agent |-> <<[x |-> start_x, y |-> start_y]>>]

\* the start positions a caller passes: every cell and one past each edge
Starts == (0..width) \X (0..height)

\* Simulator::new on the generated world; the options of the generator are
\* not part of the simulator
Construct ==
    /\ phase = "built"
    /\ \E st \in Starts :
          LET r == new(cells, st[1], st[2])
          IN  IF r.res = "Ok"
              THEN /\ agent' = r.agent[1]
                   /\ phase' = "sim"
                   /\ max_objects' = 0
                   /\ last' = [op |-> "new", res |-> "Ok"]
              ELSE /\ last' = [op |-> "new", res |-> r.res]
                   /\ UNCHANGED <<agent, phase, max_objects>>
    /\ holding' = <<>>
    /\ UNCHANGED <<cells, objects, layoutVars, genVars, prev>>

\* try_move as the older agent.rs has it: every negative cell stops the agent
try_move_negative(c, a, dx, dy) ==
    LET new_x == a.x + dx
        new_y == a.y + dy
    IN  IF new_x < 0 \/ new_x >= width \/ new_y < 0 \/ new_y >= height
        THEN [res |-> "OutOfBounds", agent |-> a]
        ELSE IF CellAt(c, new_x, new_y) < 0
        THEN [res |-> "HitObstacle", agent |-> a]
        ELSE [res |-> "Ok", agent |-> [x |-> new_x, y |-> new_y]]

\* try_move: [res, agent]
try_move(c, a, dx, dy) ==
    LET new_x == a.x + dx
        new_y == a.y + dy
    IN  IF new_x < 0 \/ new_x >= width \/ new_y < 0 \/ new_y >= height
        THEN [res |-> "OutOfBounds", agent |-> a]
        ELSE IF CellAt(c, new_x, new_y) \in OBSTACLES
        THEN [res |-> "HitObstacle", agent |-> a]
        ELSE [res |-> "Ok", agent |-> [x |-> new_x, y |-> new_y]]

\* The flat index (cy as usize) * width + (cx as usize) of use_door's loop, or
\* -1 when computing it or indexing cells with it panics. A negative
\* coordinate cast to usize is 2^N + c: with overflow checks the multiplication
\* or the addition panics (or the sum is beyond the vector); without them the
\* sum wraps to cy * width + cx taken modulo 2^N.
FillIndex(c, cx, cy) ==
    LET i == cy * width + cx
    IN  IF (cx < 0 \/ cy < 0) /\ overflow_checks THEN -1
        ELSE IF i >= 0 /\ i < Len(c) THEN i
        ELSE -1

\* the while loop of use_door over its explicit stack (the last element is
\* the top): [cells, panicked]
RECURSIVE FloodFill(_, _, _, _)
FloodFill(c, stack, cell_value, change_to) ==
    IF stack = <<>> THEN [cells |-> c, panicked |-> FALSE]
    ELSE LET cx == stack[Len(stack)][1]
             cy == stack[Len(stack)][2]
             rest == SubSeq(stack, 1, Len(stack) - 1)
             i == FillIndex(c, cx, cy)
         IN  IF i = -1 THEN [cells |-> c, panicked |-> TRUE]
             ELSE IF c[i + 1] = cell_value
             THEN FloodFill([c EXCEPT ![i + 1] = change_to],
                            rest \o << <<cx - 1, cy>>, <<cx + 1, cy>>,
                                       <<cx, cy - 1>>, <<cx, cy + 1>> >>,
                            cell_value, change_to)
             ELSE FloodFill(c, rest, cell_value, change_to)

\* use_door closing a doorway with the wrong cell code
use_door_wall(c, x, y, open_flag) ==
    LET change_to == IF open_flag THEN OPEN_DOOR ELSE WALL
        cell_value == CellAt(c, x, y)
    IN  FloodFill(c, << <<x, y>> >>, cell_value, change_to)

\* use_door at an in-bounds cell whose value differs from the value it is
\* changed to: [cells, panicked]
use_door(c, x, y, open_flag) ==
    LET change_to == IF open_flag THEN OPEN_DOOR ELSE CLOSED_DOOR
        cell_value == CellAt(c, x, y)
    IN  FloodFill(c, << <<x, y>> >>, cell_value, change_to)

\* objects at (x, y) that satisfy P, by position in the list
At(objs, x, y) == {i \in 1..Len(objs) : objs[i].x = x /\ objs[i].y = y}
PickableAt(objs, x, y) == {i \in At(objs, x, y) : objs[i].pickable}

\* pick_up without the AlreadyHolding test: the new object replaces the held one
pick_up_overwrite(objs, hold, a) ==
    LET pos == First(PickableAt(objs, a.x, a.y))
    IN  IF pos # 0
        THEN [res |-> "Ok", objects |-> RemoveAt(objs, pos), holding |-> <<objs[pos]>>]
        ELSE [res |-> "NothingToPickUp", objects |-> objs, holding |-> hold]

\* pick_up that finds nothing when the call before it has failed
pick_up_after_failure(objs, hold, a) ==
    IF hold # <<>> THEN [res |-> "AlreadyHolding", objects |-> objs, holding |-> hold]
    ELSE LET pos == IF last.res = "Ok" THEN First(PickableAt(objs, a.x, a.y)) ELSE 0
         IN  IF pos # 0
             THEN [res |-> "Ok", objects |-> RemoveAt(objs, pos), holding |-> <<objs[pos]>>]
             ELSE [res |-> "NothingToPickUp", objects |-> objs, holding |-> hold]

\* pick_up: [res, objects, holding]
pick_up(objs, hold, a) ==
    IF hold # <<>> THEN [res |-> "AlreadyHolding", objects |-> objs, holding |-> hold]
    ELSE LET pos == First(PickableAt(objs, a.x, a.y))
         IN  IF pos # 0
             THEN [res |-> "Ok", objects |-> RemoveAt(objs, pos), holding |-> <<objs[pos]>>]
             ELSE [res |-> "NothingToPickUp", objects |-> objs, holding |-> hold]

\* drop that lets go of the object without putting it back into the world
drop_lost(objs, hold, a) ==
    IF hold # <<>>
    THEN [res |-> "Ok", objects |-> objs, holding |-> <<>>]
    ELSE [res |-> "NotHolding", objects |-> objs, holding |-> hold]

\* drop: [res, objects, holding]
drop(objs, hold, a) ==
    IF hold # <<>>
    THEN [res |-> "Ok",
          objects |-> Append(objs, [hold[1] EXCEPT !.x = a.x, !.y = a.y]),
          holding |-> <<>>]
    ELSE [res |-> "NotHolding", objects |-> objs, holding |-> hold]

\* place_into without the ContainerFull test
place_into_unchecked(objs, hold, target_id) ==
    IF hold = <<>> THEN [res |-> "NotHolding", objects |-> objs, holding |-> hold]
    ELSE LET ci == First({i \in 1..Len(objs) : objs[i].id = target_id})
         IN  IF ci = 0 THEN [res |-> "InvalidTarget", objects |-> objs, holding |-> hold]
             ELSE IF TypCapacity(objs[ci]) = -1
             THEN [res |-> "InvalidTarget", objects |-> objs, holding |-> hold]
             ELSE [res |-> "Ok",
                   objects |-> Append(
                       [objs EXCEPT ![ci].contents = Append(@, hold[1].id)],
                       [hold[1] EXCEPT !.x = objs[ci].x, !.y = objs[ci].y]),
                   holding |-> <<>>]

\* place_into: [res, objects, holding]
place_into(objs, hold, target_id) ==
    IF hold = <<>> THEN [res |-> "NotHolding", objects |-> objs, holding |-> hold]
    ELSE LET ci == First({i \in 1..Len(objs) : objs[i].id = target_id})
         IN  IF ci = 0 THEN [res |-> "InvalidTarget", objects |-> objs, holding |-> hold]
             ELSE IF TypCapacity(objs[ci]) = -1
             THEN [res |-> "InvalidTarget", objects |-> objs, holding |-> hold]
             ELSE IF Len(objs[ci].contents) >= TypCapacity(objs[ci])
             THEN [res |-> "ContainerFull", objects |-> objs, holding |-> hold]
             ELSE [res |-> "Ok",
                   objects |-> Append(
                       [objs EXCEPT ![ci].contents = Append(@, hold[1].id)],
                       [hold[1] EXCEPT !.x = objs[ci].x, !.y = objs[ci].y]),
                   holding |-> <<>>]

\* the object branch of interact that puts a copy of the held object down
\* and goes on holding it
interact_objects_copy(objs, hold, tx, ty) ==
    IF hold = <<>>
    THEN LET pos == First(PickableAt(objs, tx, ty))
         IN  IF pos # 0
             THEN [res |-> "Ok", objects |-> RemoveAt(objs, pos), holding |-> <<objs[pos]>>]
             ELSE [res |-> "NothingToInteract", objects |-> objs, holding |-> hold]
    ELSE [res |-> "Ok",
          objects |-> Append(objs, [hold[1] EXCEPT !.x = tx, !.y = ty]),
          holding |-> hold]

\* the object branch of interact at the room cell (tx, ty): [res, objects, holding]
interact_objects(objs, hold, tx, ty) ==
    IF hold = <<>>
    THEN LET pos == First(PickableAt(objs, tx, ty))
         IN  IF pos # 0
             THEN [res |-> "Ok", objects |-> RemoveAt(objs, pos), holding |-> <<objs[pos]>>]
             ELSE [res |-> "NothingToInteract", objects |-> objs, holding |-> hold]
    ELSE LET ci == First(At(objs, tx, ty))
             placed == place_into(objs, hold, objs[ci].id)
         IN  IF ci # 0 /\ placed.res = "Ok" THEN placed
             ELSE [res |-> "Ok",
                   objects |-> Append(objs, [hold[1] EXCEPT !.x = tx, !.y = ty]),
                   holding |-> <<>>]

\* interact without the room-cell test before the object branch
interact_any_cell(c, objs, hold, a, dx, dy) ==
    LET tx == a.x + dx
        ty == a.y + dy
        same == [cells |-> c, objects |-> objs, holding |-> hold]
    IN  IF tx < 0 \/ tx >= width \/ ty < 0 \/ ty >= height
        THEN [res |-> "OutOfBounds"] @@ same
        ELSE IF CellAt(c, tx, ty) \in {CLOSED_DOOR, OPEN_DOOR}
        THEN LET d == use_door(c, tx, ty, CellAt(c, tx, ty) = CLOSED_DOOR)
             IN  [res |-> IF d.panicked THEN "panic" ELSE "Ok", cells |-> d.cells,
                  objects |-> objs, holding |-> hold]
        ELSE [cells |-> c] @@ interact_objects(objs, hold, tx, ty)

\* interact: [res, cells, objects, holding]
interact(c, objs, hold, a, dx, dy) ==
    LET tx == a.x + dx
        ty == a.y + dy
        same == [cells |-> c, objects |-> objs, holding |-> hold]
    IN  IF tx < 0 \/ tx >= width \/ ty < 0 \/ ty >= height
        THEN [res |-> "OutOfBounds"] @@ same
        ELSE IF CellAt(c, tx, ty) \in {CLOSED_DOOR, OPEN_DOOR}
        THEN LET d == use_door(c, tx, ty, CellAt(c, tx, ty) = CLOSED_DOOR)
             IN  [res |-> IF d.panicked THEN "panic" ELSE "Ok", cells |-> d.cells,
                  objects |-> objs, holding |-> hold]
        ELSE IF CellAt(c, tx, ty) < 0
        THEN [res |-> "NotInteractable"] @@ same
        ELSE [cells |-> c] @@ interact_objects(objs, hold, tx, ty)

\* a panic ends the simulator
After(res) == IF res = "panic" THEN "panic" ELSE "sim"

Move ==
    /\ phase = "sim"
    /\ \E d \in Deltas :
          LET r == try_move(cells, agent, d[1], d[2])
          IN  /\ agent' = r.agent
              /\ last' = [op |-> "move", res |-> r.res]
    /\ prev' = <<>>
    /\ UNCHANGED <<cells, objects, holding, layoutVars, optVars, genVars, phase>>

Interact ==
    /\ phase = "sim"
    /\ \E d \in Deltas :
          LET r == interact(cells, objects, holding, agent, d[1], d[2])
              door == InBounds(agent.x + d[1], agent.y + d[2])
                      /\ CellAt(cells, agent.x + d[1], agent.y + d[2])
                             \in {CLOSED_DOOR, OPEN_DOOR}
          IN  /\ cells' = r.cells
              /\ objects' = r.objects
              /\ holding' = r.holding
              /\ phase' = After(r.res)
              /\ last' = [op |-> "interact", res |-> r.res]
              /\ prev' = IF door /\ r.res = "Ok"
                         THEN IF /\ prev # <<>> /\ prev[1].n = 1
                                 /\ prev[1].dx = d[1] /\ prev[1].dy = d[2]
                              THEN <<[prev[1] EXCEPT !.n = 2]>>
                              ELSE <<[dx |-> d[1], dy |-> d[2], cells |-> cells, n |-> 1]>>
                         ELSE <<>>
    /\ UNCHANGED <<agent, layoutVars, optVars, genVars>>

PickUp ==
    /\ phase = "sim"
    /\ LET r == pick_up(objects, holding, agent)
       IN  /\ objects' = r.objects
           /\ holding' = r.holding
           /\ last' = [op |-> "pick_up", res |-> r.res]
    /\ prev' = <<>>
    /\ UNCHANGED <<cells, agent, layoutVars, optVars, genVars, phase>>

Drop ==
    /\ phase = "sim"
    /\ LET r == drop(objects, holding, agent)
       IN  /\ objects' = r.objects
           /\ holding' = r.holding
           /\ last' = [op |-> "drop", res |-> r.res]
    /\ prev' = <<>>
    /\ UNCHANGED <<cells, agent, layoutVars, optVars, genVars, phase>>

\* the ids a caller passes: every id in use and one that no object has
TargetIds == 0..(Len(objects) + Len(holding))

PlaceInto ==
    /\ phase = "sim"
    /\ \E target_id \in TargetIds :
          LET r == place_into(objects, holding, target_id)
          IN  /\ objects' = r.objects
              /\ holding' = r.holding
              /\ last' = [op |-> "place_into", res |-> r.res]
    /\ prev' = <<>>
    /\ UNCHANGED <<cells, agent, layoutVars, optVars, genVars, phase>>

(* ---------------------------------------------------------------------- *)
(* Specification                                                           *)
(* ---------------------------------------------------------------------- *)
\* the orders schema_list.shuffle can produce
Shuffles(s) ==
    {t \in [1..Len(s) -> {s[i] : i \in 1..Len(s)}] :
        \A i \in 1..Len(s) : \E j \in 1..Len(s) : t[j] = s[i]}

Init ==
    /\ \E l \in Layouts :
          /\ width = l.width
          /\ height = l.height
          /\ cells = l.cells
          /\ room_names = l.room_names
          \* the build decides only what a flood fill that leaves the grid
          \* does, and only a door on the border makes it leave
          /\ overflow_checks \in IF HasBorderDoor(l) THEN BOOLEAN ELSE {TRUE}
    /\ max_objects \in 1..MaxObjects
    /\ schema_list \in Shuffles(default_schemas)
    /\ objects = <<>>
    /\ si = 1
    /\ id = 0
    /\ needed = 0
    /\ phase = "place"
    /\ agent = [x |-> 0, y |-> 0]
    /\ holding = <<>>
    /\ last = [op |-> "generate", res |-> "Ok"]
    /\ prev = <<>>
    /\ max_rooms = 0
    /\ shell = {}
    /\ regions = <<>>
    /\ wall_mask = {}
    /\ door_mask = {}
    /\ world0 = <<>>
    /\ log = <<>>
    /\ fill = <<>>
    /\ door_stack = <<>>

Next ==
    \/ PlaceSchema
    \/ BeginPickPass
    \/ TopUpPick
    \/ BeginCapPass
    \/ TopUpCap
    \/ Generated
    \/ Construct
    \/ Move
    \/ Interact
    \/ PickUp
    \/ Drop
    \/ PlaceInto

Spec == Init /\ [][Next]_vars

(* ---------------------------------------------------------------------- *)
(* Recorded runs of the simulator                                          *)
(* ---------------------------------------------------------------------- *)
\* longest recorded run
MaxCalls == 3

\* the calls of the simulator's interface
Calls(objs, hold) ==
    {[op |-> "move", arg |-> d] : d \in Deltas}
        \cup {[op |-> "interact", arg |-> d] : d \in Deltas}
        \cup {[op |-> "pick_up", arg |-> <<>>], [op |-> "drop", arg |-> <<>>]}
        \cup {[op |-> "place_into", arg |-> t] : t \in 0..(Len(objs) + Len(hold))}

\* one call on the simulator st = [cells, objects, holding, agent]:
\* [res, cells, objects, holding, agent]
Apply(st, call) ==
    CASE call.op = "move" ->
             LET r == try_move(st.cells, st.agent, call.arg[1], call.arg[2])
             IN  [st EXCEPT !.agent = r.agent] @@ [res |-> r.res]
      [] call.op = "interact" ->
             LET r == interact(st.cells, st.objects, st.holding, st.agent,
                               call.arg[1], call.arg[2])
             IN  [agent |-> st.agent] @@ r
      [] call.op = "pick_up" ->
             LET r == pick_up(st.objects, st.holding, st.agent)
             IN  [cells |-> st.cells, agent |-> st.agent] @@ r
      [] call.op = "drop" ->
             LET r == drop(st.objects, st.holding, st.agent)
             IN  [cells |-> st.cells, agent |-> st.agent] @@ r
      [] call.op = "place_into" ->
             LET r == place_into(st.objects, st.holding, call.arg)
             IN  [cells |-> st.cells, agent |-> st.agent] @@ r

\* Simulator::new returns the simulator and the recording starts
RunConstruct ==
    /\ phase = "built"
    /\ \E st \in Starts :
          LET r == new(cells, st[1], st[2])
          IN  /\ r.res = "Ok"
              /\ agent' = r.agent[1]
              /\ world0' = <<[cells |-> cells, objects |-> objects, agent |-> r.agent[1]]>>
    /\ phase' = "sim"
    /\ max_objects' = 0
    /\ last' = [op |-> "new", res |-> "Ok"]
    /\ holding' = <<>>
    /\ log' = <<>>
    /\ UNCHANGED <<cells, objects, width, height, room_names, overflow_checks,
                   carveVars, fillVars, genVars, prev>>

\* one recorded call of the simulator
RunCall ==
    /\ phase = "sim"
    /\ Len(log) < MaxCalls
    /\ \E call \in Calls(objects, holding) :
          LET r == Apply([cells |-> cells, objects |-> objects,
                          holding |-> holding, agent |-> agent], call)
          IN  /\ cells' = r.cells
              /\ objects' = r.objects
              /\ holding' = r.holding
              /\ agent' = r.agent
              /\ phase' = After(r.res)
              /\ last' = [op |-> call.op, res |-> r.res]
              /\ log' = Append(log, call @@ [res |-> r.res])
    /\ prev' = <<>>
    /\ UNCHANGED <<width, height, room_names, overflow_checks, carveVars, fillVars,
                   optVars, genVars, world0>>

RunNext ==
    \/ PlaceSchema
    \/ BeginPickPass
    \/ TopUpPick
    \/ BeginCapPass
    \/ TopUpCap
    \/ Generated
    \/ RunConstruct
    \/ RunCall

RunSpec == Init /\ [][RunNext]_vars

\* the run of the calls lg[k..] from the simulator st: the simulator it ends
\* in and the results along the way
RECURSIVE Replay(_, _, _)
Replay(st, lg, k) ==
    IF k > Len(lg) THEN [state |-> st, results |-> <<>>]
    ELSE LET r == Apply(st, lg[k])
             next == [cells |-> r.cells, objects |-> r.objects,
                      holding |-> r.holding, agent |-> r.agent]
             rest == Replay(next, lg, k + 1)
         IN  [state |-> rest.state, results |-> <<r.res>> \o rest.results]

(* ---------------------------------------------------------------------- *)
(* use_door, one iteration of its loop at a time (sim.rs)                  *)
(* ---------------------------------------------------------------------- *)
\* the longest stack that is followed. A loop that changes a cell each time
\* it finds cell_value pushes four entries for one it pops, at most once per
\* cell: on the 20 cells of the largest layout it never holds more than
\* 1 + 3 * 20 entries.
MaxStack == 64

\* the entries of a stack that are followed: its top MaxStack entries. Only a
\* loop that finds cell_value in a cell it has already written holds more, and
\* the Vec of the code goes on growing under the entries kept here.
Followed(s) == IF Len(s) <= MaxStack THEN s ELSE SubSeq(s, Len(s) - MaxStack + 1, Len(s))

\* the worlds the loop is followed in have no objects
DoorInit ==
    /\ \E l \in Layouts :
          /\ width = l.width
          /\ height = l.height
          /\ cells = l.cells
          /\ room_names = l.room_names
    /\ overflow_checks \in BOOLEAN
    /\ max_objects = 0
    /\ schema_list = <<>>
    /\ objects = <<>>
    /\ si = 0
    /\ id = 0
    /\ needed = 0
    /\ phase = "built"
    /\ agent = [x |-> 0, y |-> 0]
    /\ holding = <<>>
    /\ last = [op |-> "generate", res |-> "Ok"]
    /\ prev = <<>>
    /\ max_rooms = 0
    /\ shell = {}
    /\ regions = <<>>
    /\ wall_mask = {}
    /\ door_mask = {}
    /\ world0 = <<>>
    /\ log = <<>>
    /\ fill = <<>>
    /\ door_stack = <<>>

\* a move between two calls of use_door
DoorMove == fill = <<>> /\ Move

\* interact: toward a door cell it enters use_door, otherwise it returns
InteractCall ==
    /\ phase = "sim"
    /\ fill = <<>>
    /\ \E d \in Deltas :
          LET tx == agent.x + d[1]
              ty == agent.y + d[2]
          IN  IF InBounds(tx, ty) /\ CellAt(cells, tx, ty) \in {CLOSED_DOOR, OPEN_DOOR}
              THEN /\ fill' = <<[op |-> "interact",
                                 cell_value |-> CellAt(cells, tx, ty),
                                 change_to |-> IF CellAt(cells, tx, ty) = CLOSED_DOOR
                                               THEN OPEN_DOOR ELSE CLOSED_DOOR]>>
                   /\ door_stack' = << <<tx, ty>> >>
                   /\ UNCHANGED <<cells, objects, holding, last>>
              ELSE LET r == interact(cells, objects, holding, agent, d[1], d[2])
                   IN  /\ cells' = r.cells
                       /\ objects' = r.objects
                       /\ holding' = r.holding
                       /\ last' = [op |-> "interact", res |-> r.res]
                       /\ UNCHANGED fillVars
    /\ prev' = <<>>
    /\ UNCHANGED <<agent, width, height, room_names, overflow_checks, carveVars, runVars,
                   optVars, genVars, phase>>

\* use_door(x, y, open_flag) called by the embedder: the bounds test, then
\* the loop is entered
UseDoorCall ==
    /\ phase = "sim"
    /\ fill = <<>>
    /\ \E x \in -1..width, y \in -1..height, open_flag \in BOOLEAN :
          IF x < 0 \/ x >= width \/ y < 0 \/ y >= height
          THEN /\ last' = [op |-> "use_door", res |-> "OutOfBounds"]
               /\ UNCHANGED fillVars
          ELSE /\ fill' = <<[op |-> "use_door",
                             cell_value |-> CellAt(cells, x, y),
                             change_to |-> IF open_flag THEN OPEN_DOOR ELSE CLOSED_DOOR]>>
               /\ door_stack' = << <<x, y>> >>
               /\ UNCHANGED last
    /\ prev' = <<>>
    /\ UNCHANGED <<cells, objects, agent, holding, width, height, room_names,
                   overflow_checks, carveVars, runVars, optVars, genVars, phase>>

\* one iteration of `while let Some((cx, cy)) = stack.pop()`
FillStep ==
    /\ phase = "sim"
    /\ fill # <<>>
    /\ door_stack # <<>>
    /\ LET cx == door_stack[Len(door_stack)][1]
           cy == door_stack[Len(door_stack)][2]
           rest == SubSeq(door_stack, 1, Len(door_stack) - 1)
           i == FillIndex(cells, cx, cy)
       IN  IF i = -1
           THEN /\ phase' = "panic"
                /\ last' = [op |-> fill[1].op, res |-> "panic"]
                /\ door_stack' = rest
                /\ UNCHANGED cells
           ELSE IF cells[i + 1] = fill[1].cell_value
           THEN /\ cells' = [cells EXCEPT ![i + 1] = fill[1].change_to]
                /\ door_stack' = Followed(rest \o << <<cx - 1, cy>>, <<cx + 1, cy>>,
                                                <<cx, cy - 1>>, <<cx, cy + 1>> >>)
                /\ UNCHANGED <<phase, last>>
           ELSE /\ door_stack' = rest
                /\ UNCHANGED <<cells, phase, last>>
    /\ UNCHANGED <<objects, agent, holding, width, height, room_names, overflow_checks,
                   carveVars, runVars, optVars, genVars, prev, fill>>

\* the stack is empty: use_door returns Ok(()), and so does interact
FillReturn ==
    /\ phase = "sim"
    /\ fill # <<>>
    /\ door_stack = <<>>
    /\ fill' = <<>>
    /\ last' = [op |-> fill[1].op, res |-> "Ok"]
    /\ UNCHANGED <<cells, objects, agent, holding, width, height, room_names,
                   overflow_checks, carveVars, runVars, optVars, genVars, prev, phase,
                   door_stack>>

DoorNext ==
    \/ Construct
    \/ DoorMove
    \/ InteractCall
    \/ UseDoorCall
    \/ FillStep
    \/ FillReturn

\* the loop is code that runs: an iteration that can be taken is taken
DoorSpec == DoorInit /\ [][DoorNext]_vars /\ WF_vars(FillStep) /\ WF_vars(FillReturn)

(* ---------------------------------------------------------------------- *)
(* Vocabulary of the properties                                            *)
(* ---------------------------------------------------------------------- *)
Range(s) == {s[i] : i \in 1..Len(s)}
Built == phase \in {"built", "sim"}
Other(v) == IF v = CLOSED_DOOR THEN OPEN_DOOR ELSE CLOSED_DOOR
IsDoor(v) == v \in {CLOSED_DOOR, OPEN_DOOR}

\* the target of a delta from the agent
Tx(d) == agent.x + d[1]
Ty(d) == agent.y + d[2]
DoorTarget(d) == InBounds(Tx(d), Ty(d)) /\ IsDoor(CellAt(cells, Tx(d), Ty(d)))
RoomTarget(d) == InBounds(Tx(d), Ty(d)) /\ CellAt(cells, Tx(d), Ty(d)) >= 0

\* the positions of the 4-connected run of cells of c that hold the value of
\* (x, y) and contains (x, y)
Adjacent4(p, q) ==
    \/ p[1] = q[1] /\ (p[2] = q[2] + 1 \/ q[2] = p[2] + 1)
    \/ p[2] = q[2] /\ (p[1] = q[1] + 1 \/ q[1] = p[1] + 1)
RECURSIVE Grow4(_, _)
Grow4(c, S) ==
    LET v == CellAt(c, (CHOOSE p \in S : TRUE)[1], (CHOOSE p \in S : TRUE)[2])
        more == {q \in (0..(width - 1)) \X (0..(height - 1)) :
                    /\ q \notin S
                    /\ CellAt(c, q[1], q[2]) = v
                    /\ \E p \in S : Adjacent4(p, q)}
    IN  IF more = {} THEN S ELSE Grow4(c, S \cup more)
Run4(c, x, y) == Grow4(c, {<<x, y>>})

\* c with the positions of S set to v
SetCells(c, S, v) ==
    [i \in 1..Len(c) |->
        IF <<(i - 1) % width, (i - 1) \div width>> \in S THEN v ELSE c[i]]

\* the run of (x, y) as the cell buffer connects it: flat indices one or
\* `width` apart, which off the border of the grid is the 4-connected run
FlatNeighbours(c, i) == {i - 1, i + 1, i - width, i + width} \cap (0..(Len(c) - 1))
RECURSIVE GrowFlat(_, _, _)
GrowFlat(c, S, v) ==
    LET more == {j \in 0..(Len(c) - 1) :
                    j \notin S /\ c[j + 1] = v /\ \E i \in S : j \in FlatNeighbours(c, i)}
    IN  IF more = {} THEN S ELSE GrowFlat(c, S \cup more, v)
FlatRun(c, x, y) == GrowFlat(c, {y * width + x}, CellAt(c, x, y))

\* no cell next to the run of (x, y) holds the other door value
NoOtherDoorBeside(c, x, y) ==
    \A i \in FlatRun(c, x, y) : \A j \in FlatNeighbours(c, i) :
        c[j + 1] # Other(CellAt(c, x, y))

\* containers at (x, y) with remaining capacity, by position in the list
WithRoomAt(objs, x, y) ==
    {i \in At(objs, x, y) :
        objs[i].capacity > 0 /\ Len(objs[i].contents) < objs[i].capacity}

\* objs after the held object o went into the container objs[i]
PlacedInto(objs, o, i) ==
    Append([objs EXCEPT ![i].contents = Append(@, o.id)],
           [o EXCEPT !.x = objs[i].x, !.y = objs[i].y])

\* the two object lists hold the same objects the same number of times
SameBag(s, t) ==
    /\ Len(s) = Len(t)
    /\ \A o \in Range(s) \cup Range(t) :
           Cardinality({i \in 1..Len(s) : s[i] = o})
               = Cardinality({i \in 1..Len(t) : t[i] = o})

\* the errors of interact
InteractErrors == {"OutOfBounds", "NotInteractable", "NothingToInteract"}

\* the schema an object was made from
SchemaNamed(n) ==
    CHOOSE sch \in Range(default_schemas) : sch.name = n

(* ---------------------------------------------------------------------- *)
(* Tidiness (object.rs, Object::check_placement)                           *)
(* ---------------------------------------------------------------------- *)
\* a fifth entry of ObjectSchema::default_schemas(), one whose target is a
\* container of the model
ThrowBlanket ==
    [name |-> "ThrowBlanket", capacity |-> 0, pickable |-> TRUE,
     constraint |-> [tag |-> "Or",
                     cs |-> <<InsideOf({"Sofa", "Armchair", "Bed"}),
                              InRoomNamed({"Living Room", "Bedroom"})>>],
     target |-> InsideOf({"Wardrobe", "Dresser", "StorageBox"})]

\* the entries of the catalogue check_placement looks the name up in
placement_schemas == Range(default_schemas) \cup {ThrowBlanket}

\* ObjectConstraint::check panics: InRoomNamed indexes room_names with the
\* cell cast to usize, which for a negative cell is beyond every vector; all
\* and any stop at the first constraint that decides
RECURSIVE CheckPanics(_, _, _, _, _)
CheckPanics(k, c, objs, x, y) ==
    CASE k.tag = "InRoomNamed" ->
             CellAt(c, x, y) < 0 \/ CellAt(c, x, y) >= Len(room_names)
      [] k.tag = "And" ->
             \E i \in 1..Len(k.cs) :
                 /\ CheckPanics(k.cs[i], c, objs, x, y)
                 /\ \A j \in 1..(i - 1) :
                        ~CheckPanics(k.cs[j], c, objs, x, y) /\ Check(k.cs[j], c, objs, x, y)
      [] k.tag = "Or" ->
             \E i \in 1..Len(k.cs) :
                 /\ CheckPanics(k.cs[i], c, objs, x, y)
                 /\ \A j \in 1..(i - 1) :
                        ~CheckPanics(k.cs[j], c, objs, x, y) /\ ~Check(k.cs[j], c, objs, x, y)
      [] OTHER -> FALSE

\* Object::check_placement: "true", "false" or "panic"
check_placement(o, c, objs) ==
    LET schema == CHOOSE sch \in placement_schemas : sch.name = o.name
    IN  IF CheckPanics(schema.target, c, objs, o.x, o.y) THEN "panic"
        ELSE IF Check(schema.target, c, objs, o.x, o.y) THEN "true"
        ELSE "false"

\* worlds handed to Simulator::new: a wardrobe that holds one of two throw
\* blankets; a wardrobe and a pet food bowl in the kitchen; the same in a
\* layout whose second room has no name
TidyWorlds ==
    {[layout |-> TwoRooms,
      objects |-> <<[NewObject(0, Wardrobe, 1, 1) EXCEPT !.contents = <<1>>],
                    NewObject(1, ThrowBlanket, 1, 1),
                    NewObject(2, ThrowBlanket, 1, 2)>>],
     [layout |-> TwoRooms,
      objects |-> <<NewObject(0, Wardrobe, 1, 1), NewObject(1, PetFoodBowl, 3, 1)>>],
     [layout |-> [TwoRooms EXCEPT !.room_names = <<"Bedroom">>],
      objects |-> <<NewObject(0, Wardrobe, 1, 1), NewObject(1, PetFoodBowl, 3, 1)>>]}

TidyInit ==
    /\ \E w \in TidyWorlds :
          /\ width = w.layout.width
          /\ height = w.layout.height
          /\ cells = w.layout.cells
          /\ room_names = w.layout.room_names
          /\ objects = w.objects
    /\ overflow_checks = TRUE
    /\ max_objects = 0
    /\ schema_list = <<>>
    /\ si = 0
    /\ id = 0
    /\ needed = 0
    /\ phase = "built"
    /\ agent = [x |-> 0, y |-> 0]
    /\ holding = <<>>
    /\ last = [op |-> "generate", res |-> "Ok"]
    /\ prev = <<>>
    /\ max_rooms = 0
    /\ shell = {}
    /\ regions = <<>>
    /\ wall_mask = {}
    /\ door_mask = {}
    /\ world0 = <<>>
    /\ log = <<>>
    /\ fill = <<>>
    /\ door_stack = <<>>

\* check_placement on an object of the world
CheckPlacement ==
    /\ phase = "sim"
    /\ \E i \in 1..Len(objects) :
          LET r == check_placement(objects[i], cells, objects)
          IN  /\ last' = [op |-> "check_placement", res |-> r, id |-> objects[i].id]
              /\ phase' = After(r)
    /\ prev' = <<>>
    /\ UNCHANGED <<cells, objects, agent, holding, layoutVars, optVars, genVars>>

TidyNext ==
    \/ Construct
    \/ Move
    \/ Interact
    \/ PickUp
    \/ Drop
    \/ PlaceInto
    \/ CheckPlacement

TidySpec == TidyInit /\ [][TidyNext]_vars

(* ---------------------------------------------------------------------- *)
(* Layout generation (gen.rs, generate)                                    *)
(* ---------------------------------------------------------------------- *)
MIN_THICK_CELLS == 3
MIN_ROOM_AREA_CELLS == 24
DOOR_MIN_CELLS == 2
DOOR_MAX_CELLS == 4

Min(S) == CHOOSE m \in S : \A n \in S : m <= n
Max(S) == CHOOSE m \in S : \A n \in S : m >= n
XOf(i) == i % width
YOf(i) == i \div width

\* make_concave_shell with the draws w1, h1 of gen_range(3..=5) and corner of
\* gen_range(0..4)
make_concave_shell(w1_drawn, h1_drawn, corner) ==
    LET w1 == Min({w1_drawn, width})
        h1 == Min({h1_drawn, height})
        idx(x, y) == CASE corner = 0 -> y * width + x
                       [] corner = 1 -> y * width + (width - w1 + x)
                       [] corner = 2 -> (height - h1 + y) * width + (width - w1 + x)
                       [] OTHER -> (height - h1 + y) * width + x
    IN  (0..(width * height - 1))
            \ {idx(x, y) : x \in 0..(w1 - 1), y \in 0..(h1 - 1)}

\* Region.bbox of a non-empty mask
bbox(mask) ==
    [miny |-> Min({YOf(i) : i \in mask}), maxy |-> Max({YOf(i) : i \in mask}),
     minx |-> Min({XOf(i) : i \in mask}), maxx |-> Max({XOf(i) : i \in mask})]

\* the lengths of the maximal runs of mask cells along the rows (step 1) or
\* along the columns (step width)
RunLengths(mask, step) ==
    LET first(i) == IF step = 1 THEN XOf(i) = 0 ELSE YOf(i) = 0
        final(i) == IF step = 1 THEN XOf(i) = width - 1 ELSE YOf(i) = height - 1
        starts == {i \in mask : first(i) \/ (i - step) \notin mask}
        ends == {i \in mask : final(i) \/ (i + step) \notin mask}
        end(i) == Min({e \in ends : e >= i /\ (e - i) % step = 0
                                     /\ (step = 1 => YOf(e) = YOf(i))})
    IN  {(end(i) - i) \div step + 1 : i \in starts}

\* thinnest_segment_length: [w, h]
thinnest_segment_length(mask) ==
    [w |-> Min({width} \cup RunLengths(mask, 1)),
     h |-> Min({height} \cup RunLengths(mask, width))]

\* the aspect-ratio test of one side of a split: MIN_AR <= ar <= MAX_AR with
\* MIN_AR = 1.2 = 6/5 and MAX_AR = 4
AspectOk(side) ==
    LET t == thinnest_segment_length(side)
        b == bbox(side)
        bw == b.maxx - b.minx + 1
        bh == b.maxy - b.miny + 1
        num == IF bw >= bh THEN bw ELSE bh
        den == IF bw >= bh THEN Max({t.h, 1}) ELSE Max({t.w, 1})
    IN  ~(5 * num < 6 * den \/ num > 4 * den)

\* the part of a region before (low) or after the split line
Side(region, orient, coord, low) ==
    {i \in region :
        LET k == IF orient = "v" THEN XOf(i) ELSE YOf(i)
        IN  IF low THEN k < coord ELSE k > coord}

\* the cells of the split line inside the bounding box of the region
SplitLine(region, orient, coord) ==
    LET b == bbox(region)
    IN  IF orient = "v"
        THEN {y * width + coord : y \in b.miny..b.maxy}
        ELSE {coord * width + x : x \in b.minx..b.maxx}

\* the candidate splits of a region: the line is inside the region, both
\* sides have MIN_SIZE_RATIO = 0.2 = 1/5 of the area and pass the aspect test
SplitCandidates(region) ==
    LET b == bbox(region)
        area == Cardinality(region)
        ok(orient, coord) ==
            /\ SplitLine(region, orient, coord) \subseteq region
            /\ ~(5 * Cardinality(Side(region, orient, coord, TRUE)) < area)
            /\ ~(5 * Cardinality(Side(region, orient, coord, FALSE)) < area)
            /\ AspectOk(Side(region, orient, coord, TRUE))
            /\ AspectOk(Side(region, orient, coord, FALSE))
    IN  {<<"v", x>> : x \in {k \in (b.minx + 1)..(b.maxx - 1) : ok("v", k)}}
            \cup {<<"h", y>> : y \in {k \in (b.miny + 1)..(b.maxy - 1) : ok("h", k)}}

\* the orders sort_unstable_by_key can leave a list in for the given key
\* (ascending; equal keys in any order)
RECURSIVE SortedBy(_, _)
SortedBy(S, key) ==
    IF S = {} THEN {<<>>}
    ELSE UNION {{<<m>> \o t : t \in SortedBy(S \ {m}, key)} :
                    m \in {n \in S : \A o \in S : key[n] <= key[o]}}

\* regions.sort_unstable_by_key(|r| usize::MAX - r.area): largest first
SortedRegions(regs) ==
    {[k \in 1..Len(regs) |-> regs[order[k]]] :
        order \in SortedBy(1..Len(regs), [k \in 1..Len(regs) |-> 0 - Cardinality(regs[k])])}

\* the shell cells with one of the eight neighbours off the grid or off the shell
OuterWalls(sh) ==
    {i \in sh :
        \E dy \in -1..1, dx \in -1..1 :
            /\ ~(dy = 0 /\ dx = 0)
            /\ LET ny == YOf(i) + dy
                   nx == XOf(i) + dx
               IN  \/ ny < 0 \/ nx < 0 \/ ny >= height \/ nx >= width
                   \/ (ny * width + nx) \notin sh}

\* build_labels: the label of cell i
build_labels(regs, i) ==
    LET rids == {r \in 1..Len(regs) : i \in regs[r]}
    IN  IF rids = {} THEN OUTSIDE ELSE Max(rids) - 1

\* carve_doors: the adjacency key of wall cell i, or <<>> when it joins no
\* two rooms
AdjacencyKey(regs, wall, sh, i) ==
    LET pair(a, b) == IF a < b THEN <<a, b>> ELSE <<b, a>>
        left == build_labels(regs, i - 1)
        right == build_labels(regs, i + 1)
        up == build_labels(regs, i - width)
        down == build_labels(regs, i + width)
    IN  IF \/ YOf(i) < 1 \/ YOf(i) > height - 2 \/ XOf(i) < 1 \/ XOf(i) > width - 2
           \/ i \notin wall
           \/ ~({i - width, i + width, i - 1, i + 1} \subseteq sh)
        THEN <<>>
        ELSE IF left >= 0 /\ right >= 0 /\ left # right THEN pair(left, right)
        ELSE IF up >= 0 /\ down >= 0 /\ up # down THEN pair(up, down)
        ELSE <<>>

\* the keys of `adjacency` and the bucket of a key
AdjacencyKeys(regs, wall, sh) ==
    {AdjacencyKey(regs, wall, sh, i) : i \in 0..(width * height - 1)} \ {<<>>}
Bucket(regs, wall, sh, key) ==
    {i \in 0..(width * height - 1) : AdjacencyKey(regs, wall, sh, i) = key}

\* `graph`: the neighbours of a room
GraphNeighbours(keys, u) ==
    {k[2] : k \in {e \in keys : e[1] = u}} \cup {k[1] : k \in {e \in keys : e[2] = u}}

\* the room with the most neighbours; max_by_key returns the last of them
Central(keys) ==
    LET nodes == {k[1] : k \in keys} \cup {k[2] : k \in keys}
        deg(u) == Cardinality(GraphNeighbours(keys, u))
    IN  Max({u \in nodes : \A v \in nodes : deg(u) >= deg(v)})

\* the breadth-first search of carve_doors: the tree edges
RECURSIVE TreeEdges(_, _, _, _)
TreeEdges(keys, queue, seen, tree) ==
    IF queue = <<>> THEN tree
    ELSE LET u == Head(queue)
             fresh == GraphNeighbours(keys, u) \ seen
             order == CHOOSE t \in SortedBy(fresh, [v \in fresh |-> v]) : TRUE
         IN  TreeEdges(keys, Tail(queue) \o order, seen \cup fresh,
                       tree \cup {IF u < v THEN <<u, v>> ELSE <<v, u>> : v \in fresh})

\* the doors carve_doors can cut into one bucket: the bucket sorted by row
\* when all its cells are in one column and by column otherwise, a width drawn
\* from DOOR_MIN_CELLS..=DOOR_MAX_CELLS and cut to the bucket, a start offset
DoorChoices(bucket) ==
    LET any == CHOOSE i \in bucket : TRUE
        key == IF \A i \in bucket : XOf(i) = XOf(any)
               THEN [i \in bucket |-> YOf(i)]
               ELSE [i \in bucket |-> XOf(i)]
        total == Cardinality(bucket)
    IN  UNION {UNION {{ {sorted[k] : k \in (start + 1)..(start + Min({drawn, total}))} :
                          start \in 0..(total - Min({drawn, total}))} :
                      drawn \in DOOR_MIN_CELLS..DOOR_MAX_CELLS} :
               sorted \in SortedBy(bucket, key)}

\* the door masks carve_doors can return for the given tree edges
RECURSIVE DoorMasks(_, _, _, _)
DoorMasks(regs, wall, sh, edges) ==
    IF edges = {} THEN {{}}
    ELSE LET e == CHOOSE k \in edges : TRUE
         IN  {d \cup m : d \in DoorChoices(Bucket(regs, wall, sh, e)),
                         m \in DoorMasks(regs, wall, sh, edges \ {e})}

\* carve_doors cutting a door for every pair of adjacent rooms
carve_doors_every_pair(regs, wall, sh) ==
    DoorMasks(regs, wall, sh, AdjacencyKeys(regs, wall, sh))

\* carve_doors: the door masks it can return
carve_doors(regs, wall, sh) ==
    LET keys == AdjacencyKeys(regs, wall, sh)
    IN  IF keys = {} THEN {{}}
        ELSE DoorMasks(regs, wall, sh,
                       TreeEdges(keys, <<Central(keys)>>, {Central(keys)}, {}))

\* generate draws the shell; bsp_with_walls starts with the shell as the only
\* region (Region::new unwraps the minimum of an empty mask)
MakeShell ==
    /\ phase = "shell"
    /\ \E w1 \in 3..5, h1 \in 3..5, corner \in 0..3 :
          /\ shell' = make_concave_shell(w1, h1, corner)
          /\ IF shell' = {}
             THEN /\ phase' = "panic"
                  /\ regions' = <<>>
             ELSE /\ phase' = "bsp"
                  /\ regions' = <<shell'>>
    /\ UNCHANGED <<width, height, cells, room_names, objects, agent, holding,
                   overflow_checks, optVars, genVars, last, prev, runVars, fillVars,
                   max_rooms,
                   wall_mask, door_mask>>

\* one iteration of the loop of bsp_with_walls
Split ==
    /\ phase = "bsp"
    /\ Len(regions) < max_rooms
    /\ \E sorted \in SortedRegions(regions) :
          LET region == Head(sorted)
              rest == Tail(sorted)
              b == bbox(region)
          IN  IF \/ Cardinality(region) < MIN_ROOM_AREA_CELLS * 2
                 \/ b.maxy - b.miny + 1 < 2 * MIN_THICK_CELLS
                 \/ b.maxx - b.minx + 1 < 2 * MIN_THICK_CELLS
                 \/ SplitCandidates(region) = {}
              THEN /\ regions' = Append(rest, region)
                   /\ phase' = "walls"
                   /\ UNCHANGED wall_mask
              ELSE \E cand \in SplitCandidates(region) :
                      LET mask_a == Side(region, cand[1], cand[2], TRUE)
                          mask_b == Side(region, cand[1], cand[2], FALSE)
                      IN  /\ wall_mask' = wall_mask \cup SplitLine(region, cand[1], cand[2])
                          /\ regions' = IF Cardinality(mask_a) >= Cardinality(mask_b)
                                        THEN rest \o <<mask_a, mask_b>>
                                        ELSE rest \o <<mask_b, mask_a>>
                          /\ UNCHANGED phase
    /\ UNCHANGED <<width, height, cells, room_names, objects, agent, holding,
                   overflow_checks, optVars, genVars, last, prev, runVars, fillVars,
                   max_rooms,
                   shell, door_mask>>

\* the loop of bsp_with_walls ends; the outer walls are added
AddOuterWalls ==
    /\ \/ phase = "walls"
       \/ phase = "bsp" /\ Len(regions) >= max_rooms
    /\ wall_mask' = wall_mask \cup OuterWalls(shell)
    /\ phase' = "doors"
    /\ UNCHANGED <<width, height, cells, room_names, objects, agent, holding,
                   overflow_checks, optVars, genVars, last, prev, runVars, fillVars,
                   max_rooms,
                   shell, regions, door_mask>>

\* carve_doors: the doors take their cells from the wall mask
CarveDoors ==
    /\ phase = "doors"
    /\ \E doors \in carve_doors(regions, wall_mask, shell) :
          /\ door_mask' = doors
          /\ wall_mask' = wall_mask \ doors
    /\ phase' = "cells"
    /\ UNCHANGED <<width, height, cells, room_names, objects, agent, holding,
                   overflow_checks, optVars, genVars, last, prev, runVars, fillVars,
                   max_rooms,
                   shell, regions>>

\* generate assembles the cells of the layout
Assemble ==
    /\ phase = "cells"
    /\ cells' = [k \in 1..(width * height) |->
                    IF (k - 1) \notin shell THEN OUTSIDE
                    ELSE IF (k - 1) \in wall_mask THEN WALL
                    ELSE IF (k - 1) \in door_mask THEN CLOSED_DOOR
                    ELSE build_labels(regions, k - 1)]
    /\ phase' = "layout"
    /\ UNCHANGED <<width, height, room_names, objects, agent, holding,
                   overflow_checks, optVars, genVars, last, prev, carveVars, runVars,
                   fillVars>>

\* generate(opts) up to the layout, for the options explored
GenInit ==
    /\ width \in (2 * MIN_THICK_CELLS)..MaxWidth
    /\ height \in (2 * MIN_THICK_CELLS)..MaxHeight
    /\ max_rooms \in 1..MaxRooms
    /\ cells = <<>>
    /\ room_names = <<>>
    /\ overflow_checks = TRUE
    /\ shell = {}
    /\ regions = <<>>
    /\ wall_mask = {}
    /\ door_mask = {}
    /\ max_objects = 0
    /\ schema_list = <<>>
    /\ objects = <<>>
    /\ si = 0
    /\ id = 0
    /\ needed = 0
    /\ phase = "shell"
    /\ agent = [x |-> 0, y |-> 0]
    /\ holding = <<>>
    /\ last = [op |-> "generate", res |-> "Ok"]
    /\ prev = <<>>
    /\ world0 = <<>>
    /\ log = <<>>
    /\ fill = <<>>
    /\ door_stack = <<>>

GenNext ==
    \/ MakeShell
    \/ Split
    \/ AddOuterWalls
    \/ CarveDoors
    \/ Assemble

GenSpec == GenInit /\ [][GenNext]_vars

\* largest width and height of the runs of generate on options of any size,
\* zero included
MaxAnySize == 7

\* generate(opts) up to the layout, for options that nothing has validated
AnyGenInit ==
    /\ width \in 0..MaxAnySize
    /\ height \in 0..MaxAnySize
    /\ max_rooms \in 1..MaxRooms
    /\ cells = <<>>
    /\ room_names = <<>>
    /\ overflow_checks = TRUE
    /\ shell = {}
    /\ regions = <<>>
    /\ wall_mask = {}
    /\ door_mask = {}
    /\ max_objects = 0
    /\ schema_list = <<>>
    /\ objects = <<>>
    /\ si = 0
    /\ id = 0
    /\ needed = 0
    /\ phase = "shell"
    /\ agent = [x |-> 0, y |-> 0]
    /\ holding = <<>>
    /\ last = [op |-> "generate", res |-> "Ok"]
    /\ prev = <<>>
    /\ world0 = <<>>
    /\ log = <<>>
    /\ fill = <<>>
    /\ door_stack = <<>>

AnyGenSpec == AnyGenInit /\ [][GenNext]_vars

(* ---------------------------------------------------------------------- *)
(* Properties                                                              *)
(* ---------------------------------------------------------------------- *)

\* C1: whenever the agent holds an object, that object is not in world.objects
\* and its id is in no object's contents.
C1_HeldInvariant ==
    holding # <<>> =>
        /\ \A i \in 1..Len(objects) : objects[i].id # holding[1].id
        /\ \A i \in 1..Len(objects) : holding[1].id \notin Range(objects[i].contents)

\* C2: after generation and after any simulator operation, every id in the
\* contents of an object p is the id of an object of world.objects at p's
\* coordinates, and it is in the contents of no other object.
C2_Containment ==
    Built =>
        \A pi \in 1..Len(objects) : \A cid \in Range(objects[pi].contents) :
            /\ \E ci \in 1..Len(objects) : objects[ci].id = cid
            /\ \A ci \in 1..Len(objects) :
                   objects[ci].id = cid =>
                       objects[ci].x = objects[pi].x /\ objects[ci].y = objects[pi].y
            /\ \A qi \in 1..Len(objects) :
                   qi # pi => cid \notin Range(objects[qi].contents)

\* C3: after generation and after any simulator operation, every object of
\* world.objects is on a room cell.
C3_ObjectsOnRoomCells ==
    Built => \A i \in 1..Len(objects) : CellAt(cells, objects[i].x, objects[i].y) >= 0

\* C4: the cell under the agent of a constructed simulator is never OUTSIDE,
\* WALL or CLOSED_DOOR.
C4_AgentNotOnObstacle ==
    phase = "sim" => CellAt(cells, agent.x, agent.y) \notin OBSTACLES

\* C10: every object, in the world or held, has at most capacity many contents.
C10_CapacityBound ==
    \A o \in Range(objects) \cup Range(holding) : Len(o.contents) <= o.capacity

\* C10 witness: place_into has just refused a full container
C10_Witness ==
    /\ last = [op |-> "place_into", res |-> "ContainerFull"]
    /\ \E o \in Range(objects) : o.capacity > 0 /\ Len(o.contents) = o.capacity

\* C5: interact toward a door cell toggles exactly the cells of the 4-connected
\* run of equal door cells around the target, wherever the door is.
C5_DoorwayCoherence ==
    phase = "sim" =>
        \A d \in Deltas :
            DoorTarget(d) =>
                interact(cells, objects, holding, agent, d[1], d[2]).cells
                    = SetCells(cells, Run4(cells, Tx(d), Ty(d)),
                               Other(CellAt(cells, Tx(d), Ty(d))))

\* C6: after two consecutive successful interacts toward the same door cell
\* every cell is what it was before the first.
C6_Involution ==
    (prev # <<>> /\ prev[1].n = 2) => cells = prev[1].cells

\* C6 as amended: ... provided that before the first call no cell next to the
\* toggled run held the other door value.
C6_InvolutionApart ==
    (/\ prev # <<>>
     /\ prev[1].n = 2
     /\ NoOtherDoorBeside(prev[1].cells, agent.x + prev[1].dx, agent.y + prev[1].dy))
        => cells = prev[1].cells

\* C6 witness: a doorway with nothing beside it was toggled twice
C6_Witness ==
    /\ prev # <<>>
    /\ prev[1].n = 2
    /\ last = [op |-> "interact", res |-> "Ok"]
    /\ NoOtherDoorBeside(prev[1].cells, agent.x + prev[1].dx, agent.y + prev[1].dy)
    /\ Cardinality(FlatRun(prev[1].cells, agent.x + prev[1].dx, agent.y + prev[1].dy)) > 1

\* C7: a move fails with OutOfBounds off the grid and with HitObstacle into
\* OUTSIDE, WALL or CLOSED_DOOR, in both cases leaving the agent where it is;
\* into a room cell or an OPEN_DOOR it succeeds and the agent is at the target.
C7_MoveContract ==
    phase = "sim" =>
        \A d \in Deltas :
            LET r == try_move(cells, agent, d[1], d[2])
            IN  IF ~InBounds(Tx(d), Ty(d))
                THEN r = [res |-> "OutOfBounds", agent |-> agent]
                ELSE IF CellAt(cells, Tx(d), Ty(d)) \in {OUTSIDE, WALL, CLOSED_DOOR}
                THEN r = [res |-> "HitObstacle", agent |-> agent]
                ELSE r = [res |-> "Ok", agent |-> [x |-> Tx(d), y |-> Ty(d)]]

\* C7 witness: the agent has just stepped onto an open door, next to a wall
\* and to the border of the grid
C7_Witness ==
    /\ last = [op |-> "move", res |-> "Ok"]
    /\ CellAt(cells, agent.x, agent.y) = OPEN_DOOR
    /\ \E d \in Deltas : ~InBounds(Tx(d), Ty(d))
    /\ \E d \in Deltas : InBounds(Tx(d), Ty(d)) /\ CellAt(cells, Tx(d), Ty(d)) = WALL

\* C8: interact toward a room cell while holding: the held object goes into a
\* container with remaining capacity at the target if there is one, whatever
\* else is there, and is dropped at the target otherwise; nothing is held after.
C8_InteractHolding ==
    (phase = "sim" /\ holding # <<>>) =>
        \A d \in Deltas :
            RoomTarget(d) =>
                LET r == interact(cells, objects, holding, agent, d[1], d[2])
                    room == WithRoomAt(objects, Tx(d), Ty(d))
                IN  /\ r.res = "Ok"
                    /\ r.holding = <<>>
                    /\ IF room # {}
                       THEN \E i \in room : r.objects = PlacedInto(objects, holding[1], i)
                       ELSE r.objects = Append(objects,
                                [holding[1] EXCEPT !.x = Tx(d), !.y = Ty(d)])

\* C9: place_into(id) while holding is InvalidTarget exactly when no object has
\* the id or the object has capacity 0, ContainerFull exactly when the object
\* is a container with |contents| = capacity, and otherwise puts the held
\* object into the container.
C9_PlaceIntoContract ==
    (phase = "sim" /\ holding # <<>>) =>
        \A target_id \in TargetIds :
            LET r == place_into(objects, holding, target_id)
                ti == First({i \in 1..Len(objects) : objects[i].id = target_id})
                invalid == ti = 0 \/ objects[ti].capacity = 0
                full == ~invalid /\ Len(objects[ti].contents) = objects[ti].capacity
            IN  /\ r.res = "InvalidTarget" <=> invalid
                /\ r.res = "ContainerFull" <=> full
                /\ (~invalid /\ ~full) =>
                       /\ r.res = "Ok"
                       /\ r.holding = <<>>
                       /\ r.objects = PlacedInto(objects, holding[1], ti)

\* C11: where pick_up succeeds, pick_up followed at once by drop leaves
\* world.objects the same multiset of objects and nothing held.
C11_PickDropRoundTrip ==
    phase = "sim" =>
        LET p == pick_up(objects, holding, agent)
            d == drop(p.objects, p.holding, agent)
        IN  p.res = "Ok" =>
                /\ d.res = "Ok"
                /\ d.holding = <<>>
                /\ SameBag(d.objects, objects)

\* C11 witness: an object other than the last of the list was picked up and
\* dropped again where the agent stands
C11_Witness ==
    /\ last = [op |-> "drop", res |-> "Ok"]
    /\ Len(objects) >= 2
    /\ LET p == pick_up(objects, holding, agent)
       IN  p.res = "Ok" /\ p.holding[1] # objects[Len(objects)]

\* C12: a move that succeeds is followed by a successful move in the opposite
\* direction, which brings the agent back to where it was.
C12_MovePair ==
    phase = "sim" =>
        \A d \in Deltas :
            LET first == try_move(cells, agent, d[1], d[2])
                second == try_move(cells, first.agent, -d[1], -d[2])
            IN  first.res = "Ok" => (second.res = "Ok" /\ second.agent = agent)

\* C13: interact fails and changes nothing when the target is outside the
\* grid, is WALL or OUTSIDE, or is a room cell without a pickable object while
\* nothing is held.
C13_InteractFailures ==
    phase = "sim" =>
        \A d \in Deltas :
            LET r == interact(cells, objects, holding, agent, d[1], d[2])
                fails == /\ r.res \in InteractErrors
                         /\ r.cells = cells
                         /\ r.objects = objects
                         /\ r.holding = holding
            IN  /\ ~InBounds(Tx(d), Ty(d)) => fails
                /\ (InBounds(Tx(d), Ty(d))
                        /\ CellAt(cells, Tx(d), Ty(d)) \in {WALL, OUTSIDE}) => fails
                /\ (RoomTarget(d) /\ holding = <<>>
                        /\ PickableAt(objects, Tx(d), Ty(d)) = {}) => fails

\* C13 witness: while holding an object the agent has interacted in vain with
\* a wall; the edge of the grid is next to it as well
C13_Witness ==
    /\ last = [op |-> "interact", res |-> "NotInteractable"]
    /\ holding # <<>>
    /\ \E d \in Deltas : ~InBounds(Tx(d), Ty(d))
    /\ \E d \in Deltas : InBounds(Tx(d), Ty(d)) /\ CellAt(cells, Tx(d), Ty(d)) = WALL

\* C14: pick_up answers AlreadyHolding while something is held and
\* NothingToPickUp when no pickable object is at the agent's cell; drop and
\* place_into answer NotHolding while nothing is held; every error of the three
\* leaves objects and holding as they were.
C14_TypedErrors ==
    phase = "sim" =>
        LET p == pick_up(objects, holding, agent)
            d == drop(objects, holding, agent)
            same(r) == r.objects = objects /\ r.holding = holding
        IN  /\ holding # <<>> => p.res = "AlreadyHolding"
            /\ (holding = <<>> /\ PickableAt(objects, agent.x, agent.y) = {})
                   => p.res = "NothingToPickUp"
            /\ holding = <<>> => d.res = "NotHolding"
            /\ p.res # "Ok" => same(p)
            /\ d.res # "Ok" => same(d)
            /\ \A target_id \in TargetIds :
                   LET r == place_into(objects, holding, target_id)
                   IN  /\ holding = <<>> => r.res = "NotHolding"
                       /\ r.res # "Ok" => same(r)

\* C14 witness: pick_up was refused with AlreadyHolding although a pickable
\* object lies at the agent's cell
C14_Witness ==
    /\ last = [op |-> "pick_up", res |-> "AlreadyHolding"]
    /\ holding # <<>>
    /\ PickableAt(objects, agent.x, agent.y) # {}

\* C15: Simulator::new fails for a start outside the grid or on a negative
\* cell, doors included, and otherwise returns a simulator with the agent at
\* the start; the new simulator holds nothing.
C15_Construct ==
    /\ phase = "built" =>
          \A st \in Starts :
              LET r == new(cells, st[1], st[2])
              IN  IF ~InBounds(st[1], st[2]) \/ CellAt(cells, st[1], st[2]) < 0
                  THEN r.res # "Ok" /\ r.agent = <<>>
                  ELSE r.res = "Ok" /\ r.agent = <<[x |-> st[1], y |-> st[2]]>>
    /\ last = [op |-> "new", res |-> "Ok"] =>
          (phase = "sim" /\ holding = <<>> /\ CellAt(cells, agent.x, agent.y) >= 0)

\* C15 witness: a start on the open door of a world was refused
C15_Witness ==
    /\ phase = "built"
    /\ last = [op |-> "new", res |-> "NotNavigable"]
    /\ \E st \in Starts :
          InBounds(st[1], st[2]) /\ CellAt(cells, st[1], st[2]) = OPEN_DOOR

\* C16: the world generate returns has at most max_objects objects.
C16_ObjectBound ==
    phase = "built" => Len(objects) <= max_objects

\* C17: every object place_objects adds satisfies its schema's placement
\* constraint, evaluated on the world before the object is added, at the
\* coordinates it gets, on the floor or inside a parent.
C17_PlacementLegality ==
    [][(phase \in {"place", "pick", "cap"} /\ Len(objects') = Len(objects) + 1)
          => LET o == objects'[Len(objects')]
             IN  Check(SchemaNamed(o.name).constraint, cells, objects, o.x, o.y)]_vars


\* the passable cells of c: room cells and door cells, as positions
Passable(c) ==
    {q \in (0..(width - 1)) \X (0..(height - 1)) :
        CellAt(c, q[1], q[2]) >= 0 \/ IsDoor(CellAt(c, q[1], q[2]))}

\* the passable cells of c that S reaches 4-wise over passable cells
RECURSIVE Reach4(_, _)
Reach4(c, S) ==
    LET more == {q \in Passable(c) \ S : \E p \in S : Adjacent4(p, q)}
    IN  IF more = {} THEN S ELSE Reach4(c, S \cup more)

\* C18: in every generated layout the room cells and door cells, connected
\* 4-wise, are one component, and it holds a cell of every room id
C18_Connectivity ==
    phase = "layout" =>
        /\ \A p \in Passable(cells) : Reach4(cells, {p}) = Passable(cells)
        /\ \A r \in 0..(Len(regions) - 1) :
              \E p \in Passable(cells) : CellAt(cells, p[1], p[2]) = r

\* C19: in every generated layout every maximal run of door cells is
\* DOOR_MIN_CELLS to DOOR_MAX_CELLS long
C19_DoorwayWidth ==
    phase = "layout" =>
        \A x \in 0..(width - 1), y \in 0..(height - 1) :
            IsDoor(CellAt(cells, x, y)) =>
                Cardinality(Run4(cells, x, y)) \in DOOR_MIN_CELLS..DOOR_MAX_CELLS

\* C20: in every generated layout every region of the carver covers at least
\* MIN_ROOM_AREA_CELLS cells
C20_RoomArea ==
    phase = "layout" =>
        \A r \in 1..Len(regions) : Cardinality(regions[r]) >= MIN_ROOM_AREA_CELLS


C22_SmallInputsRejected ==
    IF width < 2 * MIN_THICK_CELLS \/ height < 2 * MIN_THICK_CELLS
    THEN phase \notin {"panic", "layout"}
    ELSE phase # "panic"


\* the object check_placement was last called on, and the target of its schema
Checked == CHOOSE o \in Range(objects) : o.id = last.id
TargetOf(o) == (CHOOSE sch \in placement_schemas : sch.name = o.name).target

\* C23: for an object whose target is InsideOf(names), check_placement is
\* true exactly when the id of the object is in the contents of a container
\* whose name is in names
C23_TidyInside ==
    (last.op = "check_placement" /\ TargetOf(Checked).tag = "InsideOf") =>
        (last.res = "true"
            <=> \E i \in 1..Len(objects) :
                   /\ objects[i].name \in TargetOf(Checked).names
                   /\ Checked.id \in Range(objects[i].contents))

\* C24: check_placement of an object whose target is InRoomNamed(names) does
\* not fail, and it is true exactly when the object is on a room cell that has
\* a name and the name is in names
C24_RoomNamedTotal ==
    (last.op = "check_placement" /\ TargetOf(Checked).tag = "InRoomNamed") =>
        LET v == CellAt(cells, Checked.x, Checked.y)
        IN  /\ last.res # "panic"
            /\ last.res = "true"
                   <=> (/\ v >= 0
                        /\ v < Len(room_names)
                        /\ room_names[v + 1] \in TargetOf(Checked).names)


\* the adjacency and the spanning tree carve_doors worked with: the doors it
\* cut were walls when it looked
WallsBefore == wall_mask \cup door_mask
Adjacency == AdjacencyKeys(regions, WallsBefore, shell)
Tree == TreeEdges(Adjacency, <<Central(Adjacency)>>, {Central(Adjacency)}, {})
Carved == phase \in {"cells", "layout"} /\ Adjacency # {}

\* the rooms of the adjacency graph with the most neighbours
Busiest ==
    LET nodes == {k[1] : k \in Adjacency} \cup {k[2] : k \in Adjacency}
    IN  {u \in nodes : \A v \in nodes :
            Cardinality(GraphNeighbours(Adjacency, u))
                >= Cardinality(GraphNeighbours(Adjacency, v))}

\* C25: the root of the spanning tree is the room with the most neighbours
\* and, of several such rooms, the one with the smallest id
C25_RootSmallestId ==
    Carved => Central(Adjacency) = Min(Busiest)

\* the door cells cut into the bucket of a key, and the room ids on the room
\* cells next to a set of cells
DoorsOf(key) == Bucket(regions, WallsBefore, shell, key) \cap door_mask
RoomsBeside(S) ==
    {cells[j + 1] : j \in {n \in UNION {{i - 1, i + 1, i - width, i + width} : i \in S} :
                              cells[n + 1] >= 0}}

\* C26: every door cell is on the wall of a tree edge; the door cells of a
\* tree edge are one run; the wall of every other adjacent pair is whole, and
\* no run of door cells joins two rooms that are not a tree edge
C26_DoorsOnTreeOnly ==
    (phase = "layout" /\ Adjacency # {}) =>
        /\ \A i \in door_mask : AdjacencyKey(regions, WallsBefore, shell, i) \in Tree
        /\ \A e \in Tree :
              /\ DoorsOf(e) # {}
              /\ \A i \in DoorsOf(e) :
                    DoorsOf(e) \subseteq {q[2] * width + q[1] : q \in Run4(cells, XOf(i), YOf(i))}
        /\ \A e \in Adjacency \ Tree :
              \A i \in Bucket(regions, WallsBefore, shell, e) : cells[i + 1] = WALL
        /\ \A i \in door_mask :
              LET run == {q[2] * width + q[1] : q \in Run4(cells, XOf(i), YOf(i))}
              IN  \A a \in RoomsBeside(run), b \in RoomsBeside(run) :
                      a < b => <<a, b>> \in Tree


\* C26 witness: a layout of three rooms that are all adjacent: two pairs have
\* a doorway and the wall of the third pair is whole
C26_Witness ==
    /\ phase = "layout"
    /\ Cardinality(Adjacency) = 3
    /\ Cardinality(Tree) = 2
    /\ \A e \in Tree : DoorsOf(e) # {}
    /\ \E e \in Adjacency \ Tree :
          \A i \in Bucket(regions, WallsBefore, shell, e) : cells[i + 1] = WALL


\* C27: in the world generate returns, two objects are at the same
\* coordinates only if one of them is inside a container at that cell
C27_FloorCellsUnshared ==
    phase = "built" =>
        \A i \in 1..Len(objects), j \in 1..Len(objects) :
            (i < j /\ objects[i].x = objects[j].x /\ objects[i].y = objects[j].y) =>
                \E p \in At(objects, objects[i].x, objects[i].y) :
                    \/ objects[i].id \in Range(objects[p].contents)
                    \/ objects[j].id \in Range(objects[p].contents)


\* C28: every call that enters the loop of use_door comes out of it
C28_Terminates ==
    (fill # <<>>) ~> (fill = <<>> \/ phase = "panic")


\* what an object keeps for life, and the objects of a simulator: those of
\* the world and the held one
Identity(o) == [id |-> o.id, name |-> o.name, capacity |-> o.capacity,
                pickable |-> o.pickable]
Identities(objs, hold) == [k \in 1..(Len(objs) + Len(hold)) |-> Identity((objs \o hold)[k])]

\* C29: no call of the simulator creates, destroys or duplicates an object or
\* changes an id, a name, a capacity or a pickable flag: the objects of the
\* world and the held one keep their identities, and no id occurs twice
C29_Conservation ==
    [][(phase \in {"built", "sim"} =>
          /\ \A i \in 1..Len(objects' \o holding'), j \in 1..Len(objects' \o holding') :
                 i # j => (objects' \o holding')[i].id # (objects' \o holding')[j].id
          /\ SameBag(Identities(objects', holding'), Identities(objects, holding)))]_vars

\* C29 witness: an object was taken and put into a container of the world
C29_Witness ==
    /\ last = [op |-> "place_into", res |-> "Ok"]
    /\ Len(objects) >= 2
    /\ \E i \in 1..Len(objects) : objects[i].contents # <<>>

\* C30: a call of the simulator changes no cell that is not a door cell and
\* leaves the door cells door cells; move, pick_up, drop and place_into
\* change no cell at all
C30_OnlyDoorsChange ==
    [][(phase = "sim" =>
          /\ \A k \in 1..Len(cells) :
                 /\ ~IsDoor(cells[k]) => cells'[k] = cells[k]
                 /\ IsDoor(cells[k]) => IsDoor(cells'[k])
          /\ Len(cells') = Len(cells)
          /\ last'.op \in {"move", "pick_up", "drop", "place_into"} => cells' = cells)]_vars

\* C30 witness: an interact has toggled a doorway of a world with objects,
\* and a move followed
C30_Witness ==
    /\ last = [op |-> "move", res |-> "Ok"]
    /\ \E k \in 1..Len(cells) : cells[k] = OPEN_DOOR
    /\ \E k \in 1..Len(cells) : cells[k] = CLOSED_DOOR
    /\ objects # <<>>

====
